---- MODULE Spec2Model ----
(***************************************************************************)
(* PyPNMGui: the browser dashboard (frontend/static/js/app.js), the lab    *)
(* deployment script (deploy/lab-deploy.sh) and the agent authentication   *)
(* of the GUI server, as state machines.                                   *)
(***************************************************************************)
EXTENDS Integers, Sequences, FiniteSets, TLC

VARIABLES
    \* ---- deploy/lab-deploy.sh: start_all and wait_for_healthy ----
    dpc,          \* position of the script inside start_all
    started,      \* services brought up so far, in the order of their `up -d`
    health,       \* docker's view of each container (the environment)
    status,       \* $status: the last output of docker inspect
    wait_time,    \* $wait_time of the running wait_for_healthy
    waitResult,   \* per container: the status that ended its wait_for_healthy
    everHealthy,  \* per container: it has been healthy since it was started
    \* ---- GUI server: the agent WebSocket endpoint ----
    agentToken,   \* per agent: auth_token of its agent_config.json
    agentConn,    \* per agent: state of its connection, as the server sees it
    inbox,        \* per agent: commands delivered to it and not yet answered
    answered,     \* per agent: number of commands it answered in this session
    \* ---- frontend/static/js/app.js: the dashboard ----
    app           \* data() of the Vue application, its timers, its WebSockets,
                  \* its running async methods and what the last step emitted

deployVars == <<dpc, started, health, status, wait_time, waitResult, everHealthy>>

agentVars == <<agentToken, agentConn, inbox, answered>>

vars == <<deployVars, agentVars, app>>

(***************************************************************************)
(* deploy/lab-deploy.sh                                                    *)
(***************************************************************************)

\* CONTAINERS (container names), and the compose service each one runs.
Containers == {"eve-li-redis-lab", "pypnm-api", "pypnm-gui-lab", "pypnm-agent-lab"}
StartOrder == <<"redis-lab", "pypnm-api", "gui-server-lab", "agent-lab">>
ContainerOf(service) ==
    CASE service = "redis-lab"      -> "eve-li-redis-lab"
      [] service = "pypnm-api"      -> "pypnm-api"
      [] service = "gui-server-lab" -> "pypnm-gui-lab"
      [] service = "agent-lab"      -> "pypnm-agent-lab"

\* wait_for_healthy pypnm-api 90 / wait_for_healthy pypnm-gui-lab 60, sleep 2
ApiMaxWait == 90
GuiMaxWait == 60
SleepStep == 2

\* What a freshly created container reports: "nohealth" when the compose file
\* defines no health check for it, "starting" otherwise.
HealthStates == {"absent", "nohealth", "starting", "healthy", "unhealthy"}

\* docker inspect --format='{{.State.Health.Status}}' "$container" 2>/dev/null || echo "not_found"
DockerInspect(h) == IF h \in {"absent", "nohealth"} THEN "not_found" ELSE h

InitDeploy ==
    /\ dpc = "redis_up"
    /\ started = <<>>
    /\ health = [c \in Containers |-> "absent"]
    /\ status = ""
    /\ wait_time = 0
    /\ waitResult = [c \in Containers |-> "none"]
    /\ everHealthy = [c \in Containers |-> FALSE]

\* docker compose ... up -d <service>: the container is created; under set -e a
\* failing command ends the script.
ComposeUp(service, next) ==
    \/ \E h \in {"nohealth", "starting"} :
          /\ health' = [health EXCEPT ![ContainerOf(service)] = h]
          /\ everHealthy' = [everHealthy EXCEPT ![ContainerOf(service)] = FALSE]
          /\ started' = Append(started, service)
          /\ dpc' = next
    \/ /\ dpc' = "aborted"
       /\ UNCHANGED <<health, everHealthy, started>>

\* 1. Start Redis first (no dependencies)
StartRedis ==
    /\ dpc = "redis_up"
    /\ ComposeUp("redis-lab", "api_up")
    /\ UNCHANGED <<status, wait_time, waitResult>>

\* 2. Start PyPNM API
StartApi ==
    /\ dpc = "api_up"
    /\ ComposeUp("pypnm-api", "api_wait")
    /\ wait_time' = 0
    /\ UNCHANGED <<status, waitResult>>

WaitTimedOutIgnored(next) == next

\* What wait_for_healthy does when it returns 1: under set -e the script exits.
WaitTimedOut(next) == "aborted"

\* One iteration of the while loop of wait_for_healthy (and its exit).
WaitForHealthy(container, max_wait, next) ==
    IF wait_time < max_wait
    THEN LET s == DockerInspect(health[container]) IN
         /\ status' = s
         /\ IF s = "healthy" \/ s = "not_found"
            THEN /\ dpc' = next
                 /\ waitResult' = [waitResult EXCEPT ![container] = s]
                 /\ UNCHANGED wait_time
            ELSE /\ wait_time' = wait_time + SleepStep
                 /\ UNCHANGED <<dpc, waitResult>>
    ELSE /\ dpc' = WaitTimedOut(next)
         /\ waitResult' = [waitResult EXCEPT ![container] = "timeout"]
         /\ UNCHANGED <<status, wait_time>>

WaitApi ==
    /\ dpc = "api_wait"
    /\ WaitForHealthy("pypnm-api", ApiMaxWait, "gui_up")
    /\ UNCHANGED <<started, health, everHealthy>>

\* 3. Start GUI Server
StartGui ==
    /\ dpc = "gui_up"
    /\ ComposeUp("gui-server-lab", "gui_wait")
    /\ wait_time' = 0
    /\ UNCHANGED <<status, waitResult>>

WaitGui ==
    /\ dpc = "gui_wait"
    /\ WaitForHealthy("pypnm-gui-lab", GuiMaxWait, "agent_up")
    /\ UNCHANGED <<started, health, everHealthy>>

\* 4. Start Agent
StartAgent ==
    /\ dpc = "agent_up"
    /\ ComposeUp("agent-lab", "done")
    /\ UNCHANGED <<status, wait_time, waitResult>>

\* The environment: a container's health check moves on, or the container dies.
HealthChange ==
    /\ dpc \notin {"done", "aborted"}
    /\ \E c \in Containers, h \in {"healthy", "unhealthy", "absent"} :
          /\ health[c] \in {"starting", "healthy", "unhealthy"}
          /\ h # health[c]
          /\ health' = [health EXCEPT ![c] = h]
          /\ everHealthy' = [everHealthy EXCEPT ![c] = @ \/ h = "healthy"]
    /\ UNCHANGED <<dpc, started, status, wait_time, waitResult>>

NextDeploy ==
    \/ StartRedis
    \/ StartApi
    \/ WaitApi
    \/ StartGui
    \/ WaitGui
    \/ StartAgent
    \/ HealthChange

(***************************************************************************)
(* Agent protocol: an outbound WebSocket connection from the agent,        *)
(* authenticated with a token (AGENT_AUTH_TOKEN on the server, auth_token  *)
(* in agent_config.json).  The server side is not part of the sources at   *)
(* hand; it is modelled from the documents.                                *)
(***************************************************************************)
Agents == {"lab-agent-local", "jump-server-01"}
Tokens == {"dev-token", "dev-token-change-in-production"}
\* AGENT_AUTH_TOKEN: the token the backend expects
ServerToken == "dev-token-change-in-production"
Commands == {"snmp_get", "ssh_exec"}
MaxCommands == 2

InitAgent ==
    /\ agentToken \in [Agents -> Tokens]
    /\ agentConn = [a \in Agents |-> "disconnected"]
    /\ inbox = [a \in Agents |-> {}]
    /\ answered = [a \in Agents |-> 0]

TokenAcceptedAny(token) == TRUE

\* The server's comparison of the presented token with the expected one.
TokenAccepted(token) == token = ServerToken

\* The agent opens its WebSocket to the server.
AgentConnect(a) ==
    /\ agentConn[a] = "disconnected"
    /\ agentConn' = [agentConn EXCEPT ![a] = "connected"]
    /\ UNCHANGED <<agentToken, inbox, answered>>

\* The agent sends its auth message; the server accepts it or answers
\* "invalid token" and closes the connection.
AgentAuth(a) ==
    /\ agentConn[a] = "connected"
    /\ agentConn' = [agentConn EXCEPT ![a] =
           IF TokenAccepted(agentToken[a]) THEN "authenticated" ELSE "rejected"]
    /\ UNCHANGED <<agentToken, inbox, answered>>

\* A rejected agent has been disconnected; it connects again after its
\* reconnect_interval.
AgentRetry(a) ==
    /\ agentConn[a] = "rejected"
    /\ agentConn' = [agentConn EXCEPT ![a] = "disconnected"]
    /\ UNCHANGED <<agentToken, inbox, answered>>

\* The connection of an authenticated agent drops; its session ends and its
\* open commands are lost.
AgentDrop(a) ==
    /\ agentConn[a] = "authenticated"
    /\ agentConn' = [agentConn EXCEPT ![a] = "disconnected"]
    /\ inbox' = [inbox EXCEPT ![a] = {}]
    /\ answered' = [answered EXCEPT ![a] = 0]
    /\ UNCHANGED agentToken

\* The operator edits auth_token in agent_config.json of a stopped agent.
AgentEditToken(a) ==
    /\ agentConn[a] = "disconnected"
    /\ \E t \in Tokens \ {agentToken[a]} :
          agentToken' = [agentToken EXCEPT ![a] = t]
    /\ UNCHANGED <<agentConn, inbox, answered>>

\* The server sends a command to an agent it has authenticated.
ServerSendCommand(a) ==
    /\ agentConn[a] = "authenticated"
    /\ answered[a] + Cardinality(inbox[a]) < MaxCommands
    /\ \E c \in Commands \ inbox[a] :
          inbox' = [inbox EXCEPT ![a] = @ \cup {c}]
    /\ UNCHANGED <<agentToken, agentConn, answered>>

\* The agent executes a command it received and returns the response.
AgentAnswer(a) ==
    /\ \E c \in inbox[a] : inbox' = [inbox EXCEPT ![a] = @ \ {c}]
    /\ answered' = [answered EXCEPT ![a] = @ + 1]
    /\ UNCHANGED <<agentToken, agentConn>>

NextAgent ==
    \E a \in Agents :
        \/ AgentConnect(a)
        \/ AgentAuth(a)
        \/ AgentRetry(a)
        \/ AgentDrop(a)
        \/ AgentEditToken(a)
        \/ ServerSendCommand(a)
        \/ AgentAnswer(a)

(***************************************************************************)
(* frontend/static/js/app.js (the application created at line 567)         *)
(*                                                                         *)
(* app is a record: the fields of data() keep their names; the other       *)
(* fields are the browser's side of the program:                           *)
(*   wsClosing   WebSockets the client has close()d whose close event is   *)
(*               still to be delivered (their handlers stay attached)      *)
(*   wsLive      WebSockets of the page that are connecting or open        *)
(*   wsReplaced  the socket this.utscWebSocket refers to was created in    *)
(*               place of one that was connecting or open                  *)
(*   userStopped the user's last click on a live-monitoring button         *)
(*               stopped live monitoring                                   *)
(*   wsAfter     the delay of the reconnect timer that created the current *)
(*               socket (0 when another caller created it, or it opened)   *)
(*   timers      armed setTimeout / setInterval timers: id, kind, delay,   *)
(*               and for a reconnect timer the delay of the reconnect      *)
(*               whose socket has just failed (after; 0 when none).  A     *)
(*               timer may fire at any moment after it is armed: the model *)
(*               keeps each timer's delay, not the time left.              *)
(*   seqs        running startUtscLive calls, counted per await point      *)
(*   starts      running startUtsc calls, per await point and caller       *)
(*   stops       stopUtsc calls awaiting their response                    *)
(*   toggles     running toggleUtscLiveMode calls, per await point         *)
(*   chartInits  chart initialisations scheduled by fetchUtscData          *)
(*   discoveries loadUpstreamInterfaces calls awaiting their response      *)
(*   statsReqs   loadChannelStats calls awaiting their response            *)
(*   measurements  runPnmMeasurement calls awaiting their response         *)
(*   listReqs    searchModems / getLiveModems calls awaiting their         *)
(*               response: [id, kind]                                      *)
(*   listsSent   modem-list requests sent so far                           *)
(*   lastArrived, lastLoaded  the modem-list response that arrived last,   *)
(*               and the successful one that arrived last                  *)
(*   startBody   timing fields of the capture start request sent last      *)
(*   failed      kinds of request that have failed since the user last     *)
(*               acted                                                     *)
(*   now         Date.now(), in ms                                         *)
(*   rendered    arrival times of the last two spectrum frames rendered    *)
(*   userActions how many clicks the user makes in this run                *)
(*   out         what the running handler emits: toasts, the kinds of      *)
(*               request sent, the measurement requests in full (posts),   *)
(*               and whether it called new WebSocket.  It is empty between *)
(*               handlers.                                                 *)
(*   used        how much of each bound of the model has been used         *)
(***************************************************************************)

\* ---- bounds of the model ----
MaxUserActions == 1    \* clicks of the user: buttons, and selections of a modem or a CMTS
MaxDrops == 2          \* connections the network fails or drops
MaxProcs == 2          \* async calls of one method in flight at once
MaxListRequests == 2   \* modem-list requests of the dashboard on its own
MaxFrames == 4         \* stream messages of the stream on its own
MaxSessionActions == 3 \* clicks of the user on the live-monitoring buttons on their own
MaxMeasureActions == 3 \* clicks of the user on the measurement buttons on their own

\* ---- program constants ----
ReconnectDelayMs == 2000       \* setTimeout(..., 2000) in onclose
AutoRestartMs == 50000         \* setInterval(..., 50000)
UtscUpdateThrottle == 100      \* data.utscUpdateThrottle
DefaultRepeatPeriodMs == 1000
DefaultFreerunDurationMs == 55000
DefaultTriggerCount == 10
FallbackRepeatPeriodMs == 1000
FallbackFreerunDurationMs == 55000
FallbackTriggerCount == 10
\* The timing parameters of the UTSC issue summary of 20 January 2026
DocRepeatPeriodMs == 3000
DocFreerunDurationMs == 60000
DocTriggerCount == 20

\* The modems the user can select: one listed by getLiveModems (it carries
\* cmts_ip), one listed by searchModems without a cmts_ip.
Modems == {"live_modem", "db_modem"}
HasCmtsIp(modem) == modem = "live_modem"

SeqPcs == {"preinit", "chartinit", "configresp", "settle", "waitws", "startutsc"}
StartPcs == {"resp", "sleep", "data"}
Callers == {"user", "interval", "seq"}
TogglePcs == {"preinit", "chartinit"}
ChartInitPcs == {"tick", "create"}
ListKinds == {"search", "live"}

\* The fields of a modem record that the requests use
MacAddress(modem) == <<"mac_address", modem>>
IpAddress(modem) == <<"ip_address", modem>>

\* data.snmpCommunityModem, and what the user can type into its input
DefaultCommunityModem == "z1gg0m0n1t0r1ng"
Communities == {"", DefaultCommunityModem, "private"}

\* The measurements that have a button (runRxmerTest .. runConstellation)
MeasurementTypes ==
    {"rxmer", "spectrum", "fec_summary", "us_pre_eq", "channel_estimation",
     "modulation_profile", "histogram", "constellation"}

\* data.utscConfig (the timing fields)
DefaultUtscConfig ==
    [repeatPeriodMs |-> DefaultRepeatPeriodMs,
     freerunDurationMs |-> DefaultFreerunDurationMs,
     triggerCount |-> DefaultTriggerCount]

NoOut == [toast |-> {}, sent |-> {}, posts |-> <<>>, wsNew |-> FALSE]
\* No capture start request has been sent / no modem-list response has arrived
NoBody == [repeat_period_ms |-> 0, freerun_duration_ms |-> 0, trigger_count |-> 0]
NoReq == [id |-> 0, kind |-> "none"]

\* What this.modems holds after the successful response to request r:
\* data.modems (searchModems) or data.modems mapped to the dashboard's fields
\* (getLiveModems); before any response, the empty list of data().
ResponseList(r) == <<r.kind, r.id>>

\* The state after construction (data()), with live mode off and nothing in
\* flight, for a given selection of modem, CMTS and RF port.
AppAfterSelection(modem, cmts, rfPort) ==
    [selectedModem |-> modem,
     selectedCmts |-> cmts,
     rfPortIfindex |-> rfPort,
     utscConfig |-> DefaultUtscConfig,
     utscLiveMode |-> FALSE,
     runningUtsc |-> FALSE,
     utscSciChart |-> FALSE,
     utscWebSocket |-> "null",
     utscAutoRestartInterval |-> 0,
     utscLastUpdateTime |-> 0,
     modems |-> ResponseList(NoReq),
     wsClosing |-> 0,
     wsLive |-> 0,
     wsReplaced |-> FALSE,
     userStopped |-> FALSE,
     wsAfter |-> 0,
     timers |-> {},
     seqs |-> [pc \in SeqPcs |-> 0],
     starts |-> [x \in StartPcs \X Callers |-> 0],
     stops |-> 0,
     toggles |-> [pc \in TogglePcs |-> 0],
     chartInits |-> [pc \in ChartInitPcs |-> 0],
     discoveries |-> 0,
     statsReqs |-> 0,
     measurements |-> 0,
     listReqs |-> {},
     listsSent |-> 0,
     lastArrived |-> NoReq,
     lastLoaded |-> NoReq,
     startBody |-> NoBody,
     failed |-> {},
     now |-> UtscUpdateThrottle,
     rendered |-> <<>>,
     snmpCommunityModem |-> DefaultCommunityModem,
     userActions |-> MaxUserActions,
     out |-> NoOut,
     used |-> [user |-> 0, drops |-> 0, lists |-> 0, frames |-> 0]]

\* data(): nothing is selected
InitApp == app = AppAfterSelection("none", FALSE, 0)

\* The dashboard once the user has (or has not) selected a modem and a CMTS
\* and the RF port has (or has not) been discovered.
InitSelected ==
    \E modem \in Modems \cup {"none"}, cmts \in BOOLEAN, rfPort \in {0, 1} :
        /\ modem = "none" => rfPort = 0
        /\ app = AppAfterSelection(modem, cmts, rfPort)

\* ---- what a handler emits ----
\* this.$toast?.info / success / warning / error, showSuccess, showError
Toast(b, kind) == [b EXCEPT !.out.toast = @ \cup {kind}]
\* fetch(...)
Fetch(b, request) == [b EXCEPT !.out.sent = @ \cup {request}]
\* The handler has returned: what it emitted has left the page's state.
Done(b) == [b EXCEPT !.out = NoOut]

\* A request of this kind has failed / the user acts.
Failed(b, request) == [b EXCEPT !.failed = @ \cup {request}]
UserStep(b) == [b EXCEPT !.used.user = @ + 1, !.failed = {}]

\* After a click on a live-monitoring button that took the page from b to r:
\* whether the click stopped live monitoring (or started it).
Clicked(b, r) ==
    [r EXCEPT !.userStopped = IF b.utscLiveMode /\ ~r.utscLiveMode THEN TRUE
                              ELSE IF ~b.utscLiveMode /\ r.utscLiveMode THEN FALSE
                              ELSE @]

\* ---- timers ----
TimerIds(b) == {t.id : t \in b.timers}
NewTimerId(b) == CHOOSE n \in 1..(Cardinality(b.timers) + 1) : n \notin TimerIds(b)
SetTimer(b, kind, delay, after) ==
    [b EXCEPT !.timers = @ \cup {[id |-> NewTimerId(b), kind |-> kind,
                                  delay |-> delay, after |-> after]}]
ClearTimer(b, id) == [b EXCEPT !.timers = {t \in @ : t.id # id}]

\* this.utscAutoRestartInterval = setInterval(..., 50000)
SetAutoRestart(b) ==
    [SetTimer(b, "interval", AutoRestartMs, 0) EXCEPT
        !.utscAutoRestartInterval = NewTimerId(b)]

\* if (this.utscAutoRestartInterval) { clearInterval(...); ... = null; }
ClearAutoRestart(b) ==
    IF b.utscAutoRestartInterval # 0
    THEN [ClearTimer(b, b.utscAutoRestartInterval) EXCEPT
             !.utscAutoRestartInterval = 0]
    ELSE b

\* ---- chart ----
DestroyUtscSciChart(b) == [b EXCEPT !.utscSciChart = FALSE]

\* ---- WebSocket ----
\* stopUtscWebSocket: close() moves an open or connecting socket to CLOSING
\* (its close event comes later); utscLiveInterval (the legacy polling) is
\* never set by the methods modelled here.
StopUtscWebSocket(b) ==
    LET b1 == IF b.utscWebSocket # "null"
              THEN [b EXCEPT !.wsClosing =
                               IF b.utscWebSocket \in {"connecting", "open"}
                               THEN @ + 1 ELSE @,
                             !.wsLive =
                               IF b.utscWebSocket \in {"connecting", "open"}
                               THEN @ - 1 ELSE @,
                             !.utscWebSocket = "null",
                             !.wsReplaced = FALSE,
                             !.wsAfter = 0]
              ELSE b
    IN  DestroyUtscSciChart(b1)

\* A startUtscWebSocket that does not close the existing connection
StartUtscWebSocketNoClose(b, throws) ==
    IF b.selectedModem = "none" THEN b
    ELSE LET b1 == [DestroyUtscSciChart(b) EXCEPT !.out.wsNew = TRUE] IN
         IF throws THEN Toast(b1, "error")
         ELSE [b1 EXCEPT !.utscWebSocket = "connecting", !.wsLive = @ + 1,
                         !.wsReplaced = b.utscWebSocket \in {"connecting", "open"}]

\* startUtscWebSocket; throws: new WebSocket(wsUrl) raised an exception.
StartUtscWebSocket(b, throws) ==
    IF b.selectedModem = "none" THEN b
    ELSE LET b1 == [StopUtscWebSocket(b) EXCEPT !.out.wsNew = TRUE] IN
         IF throws THEN Toast(b1, "error")
         ELSE [b1 EXCEPT !.utscWebSocket = "connecting", !.wsLive = @ + 1,
                         !.wsReplaced = b.utscWebSocket \in {"connecting", "open"}]

\* A reconnect loop that backs off: each delay adds to the one before.
ReconnectDelayBackoff(after) == ReconnectDelayMs + after

\* The delay of the reconnect scheduled by onclose; after: the delay of the
\* reconnect whose socket has just failed (0 when the socket was not created
\* by a reconnect).
ReconnectDelay(after) == ReconnectDelayMs

\* An onclose that gives up once a reconnect has failed
OnCloseOnce(b, after) ==
    IF b.utscLiveMode /\ after = 0
    THEN SetTimer(b, "reconnect", ReconnectDelay(after), after)
    ELSE b

\* utscWebSocket.onclose
OnClose(b, after) ==
    IF b.utscLiveMode
    THEN SetTimer(b, "reconnect", ReconnectDelay(after), after)
    ELSE b

\* ---- capture start ----
\* x || fallback
OrElse(x, fallback) == IF x = 0 THEN fallback ELSE x

\* A request body with the documented timing whatever the configuration
StartRequestBodyDoc(cfg) ==
    [repeat_period_ms |-> DocRepeatPeriodMs,
     freerun_duration_ms |-> DocFreerunDurationMs,
     trigger_count |-> DocTriggerCount]

\* The timing fields of the body of POST /api/pypnm/upstream/utsc/start/<mac>
StartRequestBody(cfg) ==
    [repeat_period_ms |-> OrElse(cfg.repeatPeriodMs, FallbackRepeatPeriodMs),
     freerun_duration_ms |-> OrElse(cfg.freerunDurationMs, FallbackFreerunDurationMs),
     trigger_count |-> OrElse(cfg.triggerCount, FallbackTriggerCount)]

\* startUtsc goes on to send its request (none of its early returns is taken)
StartUtscProceeds(b) ==
    /\ b.selectedModem # "none"
    /\ b.rfPortIfindex # 0
    /\ HasCmtsIp(b.selectedModem) \/ b.selectedCmts

\* startUtsc, up to its first await
StartUtsc(b, caller) ==
    IF b.selectedModem = "none" THEN Toast(b, "warning")
    ELSE IF b.rfPortIfindex = 0 THEN Toast(b, "warning")
    ELSE IF ~(HasCmtsIp(b.selectedModem) \/ b.selectedCmts) THEN Toast(b, "error")
    ELSE [Fetch(Toast(b, "info"), "utsc_start") EXCEPT
             !.runningUtsc = TRUE,
             !.starts[<<"resp", caller>>] = @ + 1,
             !.startBody = StartRequestBody(b.utscConfig)]

\* startUtscLive, after `await this.startUtsc()`
SeqAfterStartUtsc(b) ==
    SetAutoRestart(Toast([b EXCEPT !.seqs["startutsc"] = @ - 1], "success"))

\* A startUtsc call returns to its caller.
StartUtscReturns(b, caller) ==
    IF caller = "seq" THEN SeqAfterStartUtsc(b) ELSE b

\* ---- bags of running calls ----
SeqCount(b) == b.seqs["preinit"] + b.seqs["chartinit"] + b.seqs["configresp"]
               + b.seqs["settle"] + b.seqs["waitws"] + b.seqs["startutsc"]
CallerCount(b, caller) ==
    b.starts[<<"resp", caller>>] + b.starts[<<"sleep", caller>>]
    + b.starts[<<"data", caller>>]
StartCount(b) ==
    CallerCount(b, "user") + CallerCount(b, "interval") + CallerCount(b, "seq")
ChartInitCount(b) == b.chartInits["tick"] + b.chartInits["create"]

\* initUtscSciChart, from SciChartSurface.create on.  outcome: "ok", "nodiv"
\* (the chart div is not in the DOM) or "error" (exception).
ChartCreated(b, outcome) ==
    CASE outcome = "ok"    -> [b EXCEPT !.utscSciChart = TRUE]
      [] outcome = "nodiv" -> b
      [] outcome = "error" -> Toast(b, "error")

ChartOutcomes == {"ok", "nodiv", "error"}
\* "fail": the response reports a failure; "throw": fetch or response.json()
\* rejects (for startUtsc also: the 3 minute AbortController fires).
HttpOutcomes == {"ok", "fail", "throw"}
Failures == {"fail", "throw"}

(***************************************************************************)
(* startUtsc and fetchUtscData                                             *)
(***************************************************************************)
\* The user starts a capture (startUtsc bound to a button).
UserStartUtsc ==
    /\ app.used.user < app.userActions
    /\ StartUtscProceeds(app) => StartCount(app) < MaxProcs
    /\ app' = Done(StartUtsc(UserStep(app), "user"))

\* startUtsc from the response to its request on
DoStartUtscResponse(b0, caller, outcome) ==
    LET b == [b0 EXCEPT !.starts[<<"resp", caller>>] = @ - 1] IN
    IF outcome = "ok"
    THEN [Toast(b, "info") EXCEPT !.starts[<<"sleep", caller>>] = @ + 1]
    ELSE StartUtscReturns(
             Failed([Toast(b, "error") EXCEPT !.runningUtsc = FALSE], "utsc_start"),
             caller)

StartUtscResponse(caller, outcome) ==
    /\ app.starts[<<"resp", caller>>] > 0
    /\ app' = Done(DoStartUtscResponse(app, caller, outcome))

\* After the 2 s pause startUtsc calls fetchUtscData, which runs up to its fetch.
DoStartUtscFetchData(b0, caller) ==
    LET b == [b0 EXCEPT !.starts[<<"sleep", caller>>] = @ - 1] IN
    IF b.selectedModem = "none" \/ ~HasCmtsIp(b.selectedModem)
    THEN StartUtscReturns([b EXCEPT !.runningUtsc = FALSE], caller)
    ELSE [Fetch(b, "utsc_data") EXCEPT !.starts[<<"data", caller>>] = @ + 1]

StartUtscFetchData(caller) ==
    /\ app.starts[<<"sleep", caller>>] > 0
    /\ app' = Done(DoStartUtscFetchData(app, caller))

\* fetchUtscData from its response on, and the rest of startUtsc.
DoFetchUtscDataResponse(b0, caller, outcome) ==
    LET b  == [b0 EXCEPT !.starts[<<"data", caller>>] = @ - 1]
        b1 == CASE outcome = "ok" ->
                     LET c == IF ~b.utscSciChart
                              THEN [b EXCEPT !.chartInits["tick"] = @ + 1]
                              ELSE b
                     IN  IF ~c.utscLiveMode THEN Toast(c, "success") ELSE c
                [] outcome = "fail" -> Toast(b, "error")
                [] outcome = "throw" ->
                     IF ~b.utscLiveMode THEN Toast(b, "error") ELSE b
    IN  StartUtscReturns([b1 EXCEPT !.runningUtsc = FALSE], caller)

FetchUtscDataResponse(caller, outcome) ==
    /\ app.starts[<<"data", caller>>] > 0
    /\ (outcome = "ok" /\ ~app.utscSciChart) => ChartInitCount(app) < MaxProcs
    /\ app' = Done(DoFetchUtscDataResponse(app, caller, outcome))

\* The chart initialisation scheduled by fetchUtscData calls initUtscSciChart,
\* which destroys the existing chart first.
ChartInitStart ==
    /\ app.chartInits["tick"] > 0
    /\ app' = [DestroyUtscSciChart(app) EXCEPT
                  !.chartInits["tick"] = @ - 1,
                  !.chartInits["create"] = @ + 1]

DoChartInitDone(b, outcome) ==
    ChartCreated([b EXCEPT !.chartInits["create"] = @ - 1], outcome)

ChartInitDone(outcome) ==
    /\ app.chartInits["create"] > 0
    /\ app' = Done(DoChartInitDone(app, outcome))

(***************************************************************************)
(* stopUtsc and stopUtscLive                                               *)
(***************************************************************************)
StopUtscProceeds(b) ==
    /\ b.selectedModem # "none"
    /\ HasCmtsIp(b.selectedModem)
    /\ b.rfPortIfindex # 0

\* stopUtsc, up to its await
StopUtsc(b) ==
    IF ~StopUtscProceeds(b) THEN Toast(b, "warning")
    ELSE [Fetch(Toast(b, "info"), "utsc_stop") EXCEPT !.stops = @ + 1]

\* A stopUtsc that only logs a failure
DoStopUtscResponseSilent(b0, outcome) ==
    LET b == [b0 EXCEPT !.stops = @ - 1, !.runningUtsc = FALSE] IN
    IF outcome = "ok" /\ b.utscLiveMode
    THEN StopUtscWebSocket([Toast(b, "success") EXCEPT !.utscLiveMode = FALSE])
    ELSE IF outcome = "ok" THEN Toast(b, "success") ELSE b

\* stopUtsc from its response on
DoStopUtscResponse(b0, outcome) ==
    LET b == [b0 EXCEPT !.stops = @ - 1, !.runningUtsc = FALSE] IN
    CASE outcome = "ok" ->
             IF b.utscLiveMode
             THEN StopUtscWebSocket([Toast(b, "success") EXCEPT !.utscLiveMode = FALSE])
             ELSE Toast(b, "success")
      [] outcome = "fail"  -> Toast(b, "error")
      [] outcome = "throw" -> Toast(b, "error")

StopUtscResponse(outcome) ==
    /\ app.stops > 0
    /\ app' = Done(DoStopUtscResponse(app, outcome))

StopUtscLive(b) ==
    LET b1 == StopUtscWebSocket(
                  Toast([b EXCEPT !.utscLiveMode = FALSE, !.runningUtsc = FALSE],
                        "info"))
        b2 == IF StopUtscProceeds(b1) THEN StopUtsc(b1) ELSE b1
    IN  ClearAutoRestart(b2)

\* The user stops a capture (stopUtsc bound to a button).
UserStopUtsc ==
    /\ app.used.user < app.userActions
    /\ StopUtscProceeds(app) => app.stops < MaxProcs
    /\ app' = Done(StopUtsc(UserStep(app)))

(***************************************************************************)
(* startUtscLive                                                           *)
(***************************************************************************)
\* startUtscLive, up to its first await (the unified Start/Stop button)
DoStartUtscLive(b) ==
    IF b.utscLiveMode THEN StopUtscLive(b)
    ELSE IF b.selectedModem = "none" \/ b.rfPortIfindex = 0 THEN Toast(b, "warning")
    ELSE [Toast(b, "info") EXCEPT !.utscLiveMode = TRUE, !.seqs["preinit"] = @ + 1]

UserStartUtscLive ==
    /\ app.used.user < app.userActions
    /\ IF app.utscLiveMode
       THEN StopUtscProceeds(app) => app.stops < MaxProcs
       ELSE app.selectedModem # "none" /\ app.rfPortIfindex # 0
               => SeqCount(app) < MaxProcs
    /\ app' = Clicked(app, Done(DoStartUtscLive(UserStep(app))))

\* startUtscLive from the chart check to the start request (lines 1340-1371)
SeqAfterChart(b) ==
    IF ~b.utscSciChart
    THEN [Toast(b, "error") EXCEPT !.utscLiveMode = FALSE]
    ELSE IF ~HasCmtsIp(b.selectedModem)
    THEN [Toast(Toast(b, "info"), "error") EXCEPT !.utscLiveMode = FALSE]
    ELSE [Fetch(Toast(b, "info"), "utsc_start") EXCEPT
             !.seqs["configresp"] = @ + 1,
             !.startBody = StartRequestBody(b.utscConfig)]

\* ensureSciChartLoaded, $nextTick and the 300 ms pause are over.
DoSeqPreinitDone(b0) ==
    LET b == [b0 EXCEPT !.seqs["preinit"] = @ - 1] IN
    IF ~b.utscSciChart
    THEN [DestroyUtscSciChart(b) EXCEPT !.seqs["chartinit"] = @ + 1]
    ELSE SeqAfterChart(b)

SeqPreinitDone ==
    /\ app.seqs["preinit"] > 0
    /\ app' = Done(DoSeqPreinitDone(app))

DoSeqChartInitDone(b0, outcome) ==
    SeqAfterChart(ChartCreated([b0 EXCEPT !.seqs["chartinit"] = @ - 1], outcome))

SeqChartInitDone(outcome) ==
    /\ app.seqs["chartinit"] > 0
    /\ app' = Done(DoSeqChartInitDone(app, outcome))

\* The response to the start request of startUtscLive arrives.
DoSeqConfigResponse(b0, outcome) ==
    LET b == [b0 EXCEPT !.seqs["configresp"] = @ - 1] IN
    IF outcome = "ok"
    THEN [Toast(b, "info") EXCEPT !.seqs["settle"] = @ + 1]
    ELSE Failed([Toast(b, "error") EXCEPT !.utscLiveMode = FALSE], "utsc_start")

SeqConfigResponse(outcome) ==
    /\ app.seqs["configresp"] > 0
    /\ app' = Done(DoSeqConfigResponse(app, outcome))

\* After the 2 s pause: startUtscWebSocket, then the wait for the socket
\* (a check every 100 ms, given up when attempts > 50).
DoSeqSettleDone(b0, throws) ==
    [StartUtscWebSocket([b0 EXCEPT !.seqs["settle"] = @ - 1], throws) EXCEPT
        !.seqs["waitws"] = @ + 1]

SeqSettleDone(throws) ==
    /\ app.seqs["settle"] > 0
    /\ app' = Done(DoSeqSettleDone(app, throws))

\* A check finds the socket open: the sequence calls startUtsc and, when that
\* has returned, sets the auto-restart timer.
DoSeqWsReady(b0) ==
    LET b  == [b0 EXCEPT !.seqs["waitws"] = @ - 1, !.seqs["startutsc"] = @ + 1]
        b1 == StartUtsc(b, "seq")
    IN  IF StartUtscProceeds(b) THEN b1 ELSE SeqAfterStartUtsc(b1)

SeqWsReady ==
    /\ app.seqs["waitws"] > 0
    /\ app.utscWebSocket = "open"
    /\ StartUtscProceeds(app) => StartCount(app) < MaxProcs
    /\ app' = Done(DoSeqWsReady(app))

\* The last check (attempts > 50) finds the socket still not open.
DoSeqWsTimeout(b0) ==
    [StopUtscWebSocket(Toast([b0 EXCEPT !.seqs["waitws"] = @ - 1], "error")) EXCEPT
        !.utscLiveMode = FALSE]

SeqWsTimeout ==
    /\ app.seqs["waitws"] > 0
    /\ app.utscWebSocket # "open"
    /\ app' = Done(DoSeqWsTimeout(app))

(***************************************************************************)
(* toggleUtscLiveMode                                                      *)
(***************************************************************************)
\* toggleUtscLiveMode from "Verify chart is ready" on (lines 1738-1755)
ToggleAfterChart(b, throws) ==
    IF ~b.utscSciChart
    THEN [Toast(b, "error") EXCEPT !.utscLiveMode = FALSE]
    ELSE SetAutoRestart(StartUtscWebSocket(Toast(b, "success"), throws))

\* toggleUtscLiveMode, up to its first await
DoToggleUtscLiveMode(b0, throws) ==
    LET b == [b0 EXCEPT !.utscLiveMode = ~@] IN
    IF b.utscLiveMode
    THEN IF ~b.utscSciChart
         THEN [b EXCEPT !.toggles["preinit"] = @ + 1]
         ELSE ToggleAfterChart(b, throws)
    ELSE ClearAutoRestart(StopUtscWebSocket(Toast(b, "info")))

UserToggleUtscLiveMode(throws) ==
    /\ app.used.user < app.userActions
    /\ throws => ~app.utscLiveMode /\ app.utscSciChart /\ app.selectedModem # "none"
    /\ ~app.utscLiveMode /\ ~app.utscSciChart
          => app.toggles["preinit"] + app.toggles["chartinit"] < MaxProcs
    /\ app' = Clicked(app, Done(DoToggleUtscLiveMode(UserStep(app), throws)))

\* ensureSciChartLoaded, $nextTick and the 150 ms pause are over:
\* initUtscSciChart starts (and destroys the existing chart first).
TogglePreinitDone ==
    /\ app.toggles["preinit"] > 0
    /\ app' = [DestroyUtscSciChart(app) EXCEPT
                  !.toggles["preinit"] = @ - 1,
                  !.toggles["chartinit"] = @ + 1]

DoToggleChartInitDone(b0, outcome, throws) ==
    ToggleAfterChart(ChartCreated([b0 EXCEPT !.toggles["chartinit"] = @ - 1], outcome),
                     throws)

ToggleChartInitDone(outcome, throws) ==
    /\ app.toggles["chartinit"] > 0
    /\ throws => outcome = "ok" /\ app.selectedModem # "none"
    /\ app' = Done(DoToggleChartInitDone(app, outcome, throws))

(***************************************************************************)
(* The WebSocket's events                                                  *)
(***************************************************************************)
\* utscWebSocket.onopen
DoWsOpen(b) ==
    [Toast(b, "success") EXCEPT !.utscWebSocket = "open", !.wsAfter = 0]

WsOpen ==
    /\ app.utscWebSocket = "connecting"
    /\ app' = Done(DoWsOpen(app))

\* The connection cannot be established: onerror, then onclose.
DoWsFail(b) ==
    OnClose([Toast(b, "error") EXCEPT !.utscWebSocket = "closed", !.wsAfter = 0,
                                      !.wsLive = @ - 1],
            b.wsAfter)

WsFail ==
    /\ app.utscWebSocket = "connecting"
    /\ app.used.drops < MaxDrops
    /\ app' = Done(DoWsFail([app EXCEPT !.used.drops = @ + 1]))

\* The open connection is closed by the server (onclose), or is lost
\* (onerror, then onclose).
DoWsDrop(b0, lost) ==
    LET b == [b0 EXCEPT !.utscWebSocket = "closed", !.wsLive = @ - 1] IN
    OnClose(IF lost THEN Toast(b, "error") ELSE b, 0)

WsDrop(lost) ==
    /\ app.utscWebSocket = "open"
    /\ app.used.drops < MaxDrops
    /\ app' = Done(DoWsDrop([app EXCEPT !.used.drops = @ + 1], lost))

\* The close event of a socket the client has closed: its onclose runs too.
DoWsClosingDone(b) == OnClose([b EXCEPT !.wsClosing = @ - 1], 0)

WsClosingDone ==
    /\ app.wsClosing > 0
    /\ app' = Done(DoWsClosingDone(app))

\* utscWebSocket.onmessage for the messages that carry no spectrum
StreamMessageTypes == {"buffering_complete", "heartbeat", "error", "connected"}
DoOnMessage(b, type) ==
    IF type = "buffering_complete" THEN Toast(b, "success") ELSE b

OnMessage(type) ==
    /\ app.utscWebSocket = "open"
    /\ app' = Done(DoOnMessage(app, type))

(***************************************************************************)
(* Timers                                                                  *)
(***************************************************************************)
\* The callback of the setTimeout of onclose
DoReconnectFire(b0, t, throws) ==
    LET b == ClearTimer(b0, t.id) IN
    IF b.utscLiveMode
    THEN LET b1 == StartUtscWebSocket(b, throws) IN
         IF b1.utscWebSocket = "connecting" THEN [b1 EXCEPT !.wsAfter = t.delay] ELSE b1
    ELSE b

ReconnectFire(throws) ==
    \E t \in app.timers :
        /\ t.kind = "reconnect"
        /\ throws => app.utscLiveMode /\ app.selectedModem # "none"
        /\ app' = Done(DoReconnectFire(app, t, throws))

\* An auto-restart that does not look at runningUtsc
DoAutoRestartFireAlways(b) ==
    IF b.utscLiveMode THEN StartUtsc(b, "interval") ELSE b

\* The callback of the auto-restart setInterval
DoAutoRestartFire(b) ==
    IF b.utscLiveMode /\ ~b.runningUtsc THEN StartUtsc(b, "interval") ELSE b

AutoRestartFire ==
    /\ \E t \in app.timers : t.kind = "interval"
    /\ app.utscLiveMode /\ ~app.runningUtsc /\ StartUtscProceeds(app)
          => StartCount(app) < MaxProcs
    /\ app' = Done(DoAutoRestartFire(app))

(***************************************************************************)
(* Selections                                                              *)
(***************************************************************************)
\* selectModem: the RF port is reset, loadChannelStats is called, and
\* loadUpstreamInterfaces discovers the RF port again when the modem has a
\* cmts_ip.  (loadSystemInfo, which only fills systemInfo, is left out.)
DoSelectModem(b0, modem) ==
    LET b  == [b0 EXCEPT !.selectedModem = modem, !.rfPortIfindex = 0]
        b1 == [Fetch(b, "channel_stats") EXCEPT !.statsReqs = @ + 1]
    IN  IF HasCmtsIp(modem)
        THEN [Fetch(b1, "discover_rf_port") EXCEPT !.discoveries = @ + 1]
        ELSE b1

SelectModem(modem) ==
    /\ app.used.user < app.userActions
    /\ app.statsReqs < MaxProcs
    /\ HasCmtsIp(modem) => app.discoveries < MaxProcs
    /\ app' = Done(DoSelectModem(UserStep(app), modem))

\* loadUpstreamInterfaces from its response on
DoDiscoveryResponse(b0, outcome) ==
    LET b == [b0 EXCEPT !.discoveries = @ - 1] IN
    CASE outcome = "ok"    -> [Toast(b, "success") EXCEPT !.rfPortIfindex = 1]
      [] outcome = "fail"  -> Toast(b, "warning")
      [] outcome = "throw" -> Toast(b, "error")

DiscoveryResponse(outcome) ==
    /\ app.discoveries > 0
    /\ app' = Done(DoDiscoveryResponse(app, outcome))

\* loadChannelStats from its response on: a failure is only logged
\* (console.warn).
DoChannelStatsResponse(b0, outcome) == [b0 EXCEPT !.statsReqs = @ - 1]

ChannelStatsResponse(outcome) ==
    /\ app.statsReqs > 0
    /\ app' = Done(DoChannelStatsResponse(app, outcome))

\* The user picks a CMTS in the CMTS list.
SelectCmts ==
    /\ app.used.user < app.userActions
    /\ ~app.selectedCmts
    /\ app' = [UserStep(app) EXCEPT !.selectedCmts = TRUE]

(***************************************************************************)
(* Measurements and modem lists                                            *)
(***************************************************************************)
\* fetch(url, {method: 'POST', body: JSON.stringify(payload)})
Post(b, url, payload) ==
    [b EXCEPT !.out.posts = Append(@, [method |-> "POST", url |-> url,
                                       body |-> payload])]

\* The payload of runPnmMeasurement; a field that is absent is 0.
MeasurementPayload(b, measurementType) ==
    [modem_ip |-> IpAddress(b.selectedModem),
     community |-> IF b.snmpCommunityModem = "" THEN DefaultCommunityModem
                   ELSE b.snmpCommunityModem,
     output_type |-> "archive",
     fec_summary_type |-> IF measurementType = "fec_summary" THEN 2 ELSE 0,
     sample_duration |-> IF measurementType = "histogram" THEN 60 ELSE 0]

\* A runPnmMeasurement that leaves the modem's address out of its payload
DoRunPnmMeasurementNoIp(b, measurementType) ==
    IF b.selectedModem = "none" THEN b
    ELSE [Post(Fetch(b, "measurement"),
               <<"pypnm", "measurements", measurementType,
                 MacAddress(b.selectedModem)>>,
               [MeasurementPayload(b, measurementType) EXCEPT !.modem_ip = <<>>])
             EXCEPT !.measurements = @ + 1]

\* runPnmMeasurement, up to its await
DoRunPnmMeasurement(b, measurementType) ==
    IF b.selectedModem = "none" THEN b
    ELSE [Post(Fetch(b, "measurement"),
               <<"pypnm", "measurements", measurementType,
                 MacAddress(b.selectedModem)>>,
               MeasurementPayload(b, measurementType))
             EXCEPT !.measurements = @ + 1]

\* The user clicks the button of a measurement (runRxmerTest, ...).
UserRunPnmMeasurement(measurementType) ==
    /\ app.used.user < app.userActions
    /\ app.selectedModem # "none" => app.measurements < MaxProcs
    /\ app' = Done(DoRunPnmMeasurement(UserStep(app), measurementType))

\* The user types an SNMP community for the modems.
EditCommunityModem(community) ==
    /\ app.used.user < app.userActions
    /\ community # app.snmpCommunityModem
    /\ app' = [UserStep(app) EXCEPT !.snmpCommunityModem = community]

\* A runPnmMeasurement that sends its request again when it has failed
DoMeasurementResponseRetry(b0, outcome) ==
    LET b == [b0 EXCEPT !.measurements = @ - 1] IN
    IF outcome = "ok" THEN Toast(b, "success")
    ELSE [Fetch(Failed(Toast(b, "error"), "measurement"), "measurement") EXCEPT
             !.measurements = @ + 1]

\* runPnmMeasurement from its response on
DoMeasurementResponse(b0, outcome) ==
    LET b == [b0 EXCEPT !.measurements = @ - 1] IN
    IF outcome = "ok" THEN Toast(b, "success")
    ELSE Failed(Toast(b, "error"), "measurement")

MeasurementResponse(outcome) ==
    /\ app.measurements > 0
    /\ app' = Done(DoMeasurementResponse(app, outcome))

\* searchModems ("search") and getLiveModems ("live"), up to their await
DoListModems(b, kind) ==
    IF kind = "live" /\ ~b.selectedCmts THEN Toast(b, "error")
    ELSE [Fetch(b, kind) EXCEPT
             !.listsSent = @ + 1,
             !.listReqs = @ \cup {[id |-> b.listsSent + 1, kind |-> kind]}]

\* The user asks for a modem list; budget names the bound the click counts
\* against.
UserListModems(kind, budget, max) ==
    /\ app.used[budget] < max
    /\ app' = Done(DoListModems([app EXCEPT !.used[budget] = @ + 1, !.failed = {}],
                                kind))

\* A response handler that keeps the list of the request sent last
DoListResponseNewest(b0, r, outcome) ==
    LET b == [b0 EXCEPT !.listReqs = @ \ {r}, !.lastArrived = r] IN
    IF outcome = "ok"
    THEN [b EXCEPT !.modems = IF r.id = b.listsSent THEN ResponseList(r) ELSE @,
                   !.lastLoaded = r]
    ELSE Failed(Toast(b, "error"), r.kind)

\* searchModems / getLiveModems from their response on
DoListResponse(b0, r, outcome) ==
    LET b == [b0 EXCEPT !.listReqs = @ \ {r}, !.lastArrived = r] IN
    IF outcome = "ok"
    THEN [b EXCEPT !.modems = ResponseList(r), !.lastLoaded = r]
    ELSE Failed(Toast(b, "error"), r.kind)

ListResponse(outcome) ==
    \E r \in app.listReqs : app' = Done(DoListResponse(app, r, outcome))

(***************************************************************************)
(* Spectrum frames of the live stream                                      *)
(***************************************************************************)
Later(seq, x) == IF Len(seq) < 2 THEN Append(seq, x) ELSE <<seq[2], x>>

\* An onmessage that forgets when it rendered last
DoSpectrumFrameUnthrottled(b, hasData) ==
    IF b.now - b.utscLastUpdateTime < UtscUpdateThrottle THEN b
    ELSE [b EXCEPT !.rendered = IF hasData THEN Later(@, b.now) ELSE @]

\* utscWebSocket.onmessage for a message of type spectrum that arrives when
\* Date.now() is b.now; hasData: it carries raw_data or a plot to render.
DoSpectrumFrame(b, hasData) ==
    IF b.now - b.utscLastUpdateTime < UtscUpdateThrottle THEN b
    ELSE [b EXCEPT !.utscLastUpdateTime = b.now,
                   !.rendered = IF hasData THEN Later(@, b.now) ELSE @]

\* The time between two messages of the stream
Gaps == {0, 1, UtscUpdateThrottle - 1, UtscUpdateThrottle, UtscUpdateThrottle + 1}

SpectrumFrame(gap, hasData) ==
    /\ app.utscWebSocket = "open"
    /\ app.used.frames < MaxFrames
    /\ app' = Done(DoSpectrumFrame([app EXCEPT !.now = @ + gap,
                                               !.used.frames = @ + 1], hasData))

\* The dashboard streaming: live mode switched on for the modem listed by
\* getLiveModems, the chart created and the socket open.
StreamingApp ==
    Done(DoWsOpen(Done(DoToggleChartInitDone(
        [Done(DoToggleUtscLiveMode(AppAfterSelection("live_modem", TRUE, 1), FALSE))
            EXCEPT !.toggles["preinit"] = @ - 1, !.toggles["chartinit"] = @ + 1],
        "ok", FALSE))))

(***************************************************************************)
(* Specifications                                                          *)
(***************************************************************************)
NextLive ==
    \/ UserStartUtsc
    \/ \E c \in Callers, o \in HttpOutcomes : StartUtscResponse(c, o)
    \/ \E c \in Callers : StartUtscFetchData(c)
    \/ \E c \in Callers, o \in HttpOutcomes : FetchUtscDataResponse(c, o)
    \/ ChartInitStart
    \/ \E o \in ChartOutcomes : ChartInitDone(o)
    \/ \E o \in HttpOutcomes : StopUtscResponse(o)
    \/ UserStopUtsc
    \/ UserStartUtscLive
    \/ SeqPreinitDone
    \/ \E o \in ChartOutcomes : SeqChartInitDone(o)
    \/ \E o \in HttpOutcomes : SeqConfigResponse(o)
    \/ \E th \in BOOLEAN : SeqSettleDone(th)
    \/ SeqWsReady
    \/ SeqWsTimeout
    \/ \E th \in BOOLEAN : UserToggleUtscLiveMode(th)
    \/ TogglePreinitDone
    \/ \E o \in ChartOutcomes, th \in BOOLEAN : ToggleChartInitDone(o, th)
    \/ WsOpen
    \/ WsFail
    \/ \E lost \in BOOLEAN : WsDrop(lost)
    \/ WsClosingDone
    \/ \E ty \in StreamMessageTypes : OnMessage(ty)
    \/ \E th \in BOOLEAN : ReconnectFire(th)
    \/ AutoRestartFire
    \/ \E m \in Modems : SelectModem(m)
    \/ \E o \in HttpOutcomes : DiscoveryResponse(o)
    \/ \E o \in HttpOutcomes : ChannelStatsResponse(o)
    \/ SelectCmts
    \/ \E ty \in MeasurementTypes : UserRunPnmMeasurement(ty)
    \/ \E o \in HttpOutcomes : MeasurementResponse(o)
    \/ \E k \in ListKinds : UserListModems(k, "user", app.userActions)
    \/ \E o \in HttpOutcomes : ListResponse(o)

\* The modem lists on their own
NextDash ==
    \/ \E k \in ListKinds : UserListModems(k, "lists", MaxListRequests)
    \/ \E o \in HttpOutcomes : ListResponse(o)
    \/ SelectCmts

\* The live stream on its own
NextStream ==
    \E gap \in Gaps, hasData \in BOOLEAN : SpectrumFrame(gap, hasData)

\* An agent endpoint on which every agent holds the expected token
InitAgentIdle ==
    /\ agentToken = [a \in Agents |-> ServerToken]
    /\ agentConn = [a \in Agents |-> "disconnected"]
    /\ inbox = [a \in Agents |-> {}]
    /\ answered = [a \in Agents |-> 0]

Init == InitDeploy /\ InitAgentIdle /\ InitSelected

Spec == Init /\ [][NextLive /\ UNCHANGED <<deployVars, agentVars>>]_vars

SpecDash == Init /\ [][NextDash /\ UNCHANGED <<deployVars, agentVars>>]_vars

InitStream == InitDeploy /\ InitAgentIdle /\ app = StreamingApp

SpecStream == InitStream /\ [][NextStream /\ UNCHANGED <<deployVars, agentVars>>]_vars

\* The capture and live-monitoring buttons on their own, for a modem listed
\* by getLiveModems whose RF port has been discovered
NextSession ==
    \/ UserStartUtsc
    \/ \E c \in Callers, o \in HttpOutcomes : StartUtscResponse(c, o)
    \/ \E c \in Callers : StartUtscFetchData(c)
    \/ \E c \in Callers, o \in HttpOutcomes : FetchUtscDataResponse(c, o)
    \/ ChartInitStart
    \/ \E o \in ChartOutcomes : ChartInitDone(o)
    \/ \E o \in HttpOutcomes : StopUtscResponse(o)
    \/ UserStopUtsc
    \/ UserStartUtscLive
    \/ SeqPreinitDone
    \/ \E o \in ChartOutcomes : SeqChartInitDone(o)
    \/ \E o \in HttpOutcomes : SeqConfigResponse(o)
    \/ \E th \in BOOLEAN : SeqSettleDone(th)
    \/ SeqWsReady
    \/ SeqWsTimeout
    \/ \E th \in BOOLEAN : UserToggleUtscLiveMode(th)
    \/ TogglePreinitDone
    \/ \E o \in ChartOutcomes, th \in BOOLEAN : ToggleChartInitDone(o, th)
    \/ WsOpen
    \/ WsFail
    \/ \E lost \in BOOLEAN : WsDrop(lost)
    \/ WsClosingDone
    \/ \E th \in BOOLEAN : ReconnectFire(th)
    \/ AutoRestartFire

InitSession ==
    /\ InitDeploy /\ InitAgentIdle
    /\ app = [AppAfterSelection("live_modem", TRUE, 1) EXCEPT
                 !.userActions = MaxSessionActions]

SpecSession == InitSession /\ [][NextSession /\ UNCHANGED <<deployVars, agentVars>>]_vars

\* The measurement buttons and the selection of a modem on their own
NextMeasure ==
    \/ \E ty \in MeasurementTypes : UserRunPnmMeasurement(ty)
    \/ \E o \in HttpOutcomes : MeasurementResponse(o)
    \/ \E c \in Communities : EditCommunityModem(c)
    \/ \E m \in Modems : SelectModem(m)
    \/ \E o \in HttpOutcomes : DiscoveryResponse(o)
    \/ \E o \in HttpOutcomes : ChannelStatsResponse(o)

InitMeasure ==
    /\ InitDeploy /\ InitAgentIdle
    /\ \E modem \in Modems \cup {"none"}, community \in Communities :
           app = [AppAfterSelection(modem, FALSE, 0) EXCEPT
                     !.snmpCommunityModem = community,
                     !.userActions = MaxMeasureActions]

SpecMeasure == InitMeasure /\ [][NextMeasure /\ UNCHANGED <<deployVars, agentVars>>]_vars

InitDeployment == InitDeploy /\ InitAgentIdle /\ InitApp

SpecDeploy == InitDeployment /\ [][NextDeploy /\ UNCHANGED <<agentVars, app>>]_vars

InitAgentEndpoint == InitDeploy /\ InitAgent /\ InitApp

SpecAgent == InitAgentEndpoint /\ [][NextAgent /\ UNCHANGED <<deployVars, app>>]_vars

(***************************************************************************)
(* Claims about the deployment script and the agent protocol               *)
(***************************************************************************)
Range(seq) == {seq[i] : i \in 1..Len(seq)}
IsPrefix(s, t) == Len(s) =< Len(t) /\ \A i \in 1..Len(s) : s[i] = t[i]

\* C8 (as stated): start_all brings the services up in the order Redis, PyPNM
\* API, GUI server, agent, and the GUI server is never started before the
\* PyPNM API container has been healthy, nor the agent before the GUI
\* container has been healthy.
C8_StartedOnlyAfterHealthy ==
    /\ IsPrefix(started, StartOrder)
    /\ "gui-server-lab" \in Range(started) => everHealthy["pypnm-api"]
    /\ "agent-lab" \in Range(started) => everHealthy["pypnm-gui-lab"]

\* C8 (amended): the order is Redis, PyPNM API, GUI server, agent, and a
\* service is started only after wait_for_healthy either saw the container
\* before it healthy or could not read a health status for it ("not_found");
\* a wait that times out ends the script.
C8_StartedAfterHealthyOrNotFound ==
    /\ IsPrefix(started, StartOrder)
    /\ "gui-server-lab" \in Range(started) =>
          \/ waitResult["pypnm-api"] = "healthy" /\ everHealthy["pypnm-api"]
          \/ waitResult["pypnm-api"] = "not_found"
    /\ "agent-lab" \in Range(started) =>
          \/ waitResult["pypnm-gui-lab"] = "healthy" /\ everHealthy["pypnm-gui-lab"]
          \/ waitResult["pypnm-gui-lab"] = "not_found"
    /\ dpc = "aborted" /\ waitResult["pypnm-api"] = "timeout" =>
          "gui-server-lab" \notin Range(started)
    /\ dpc = "aborted" /\ waitResult["pypnm-gui-lab"] = "timeout" =>
          "agent-lab" \notin Range(started)

C8_Witness ==
    /\ dpc = "done"
    /\ started = StartOrder
    /\ waitResult["pypnm-api"] = "healthy"
    /\ waitResult["pypnm-gui-lab"] = "healthy"

\* C9: the server accepts an agent connection only when the agent presents the
\* token the server expects; an agent presenting any other token is never
\* authenticated and never receives or answers commands.
C9_OnlyExpectedTokenAccepted ==
    \A a \in Agents :
        /\ agentConn[a] = "authenticated" => agentToken[a] = ServerToken
        /\ agentToken[a] # ServerToken =>
              /\ agentConn[a] # "authenticated"
              /\ inbox[a] = {}
              /\ answered[a] = 0

C9_Witness ==
    \E a, b \in Agents :
        /\ agentToken[a] = ServerToken /\ answered[a] > 0
        /\ agentToken[b] # ServerToken /\ agentConn[b] = "rejected"

(***************************************************************************)
(* Claims about the dashboard                                              *)
(***************************************************************************)
ReconnectTimers(b) == {t \in b.timers : t.kind = "reconnect"}
IntervalTimers(b) == {t \in b.timers : t.kind = "interval"}
\* The handler has armed a reconnect timer of ReconnectDelayMs.
Armed(b, r) ==
    \E t \in r.timers \ b.timers : t.kind = "reconnect" /\ t.delay = ReconnectDelayMs

\* C1: whenever the live WebSocket closes while live mode is on (the
\* connection fails, is dropped, or a socket the client closed delivers its
\* close event), onclose arms a timer of 2000 ms, however many reconnects came
\* before; when that timer fires and live mode is still on, new WebSocket is
\* called; when live mode is off by then, no connection is attempted.
C1_ReconnectAfterClose ==
    /\ app.utscLiveMode =>
          /\ app.utscWebSocket = "connecting" => Armed(app, DoWsFail(app))
          /\ app.utscWebSocket = "open" =>
                \A lost \in BOOLEAN : Armed(app, DoWsDrop(app, lost))
          /\ app.wsClosing > 0 => Armed(app, DoWsClosingDone(app))
    /\ \A t \in ReconnectTimers(app) :
          IF app.utscLiveMode
          THEN \A th \in BOOLEAN : DoReconnectFire(app, t, th).out.wsNew
          ELSE DoReconnectFire(app, t, FALSE) = ClearTimer(app, t.id)

\* A socket created by a reconnect is connecting, in live mode, after a drop.
C1_Witness ==
    /\ app.utscLiveMode
    /\ app.utscWebSocket = "connecting"
    /\ app.wsAfter = ReconnectDelayMs
    /\ app.used.drops > 0

\* What a tick of the auto-restart timer sends
RestartSent(b) == DoAutoRestartFire(b).out.sent

\* C2 (as stated): while live mode is on, every tick of the 50 s auto-restart
\* timer sends a capture start request unless a capture start is in progress.
C2_RestartEveryTick ==
    IntervalTimers(app) # {} /\ app.utscLiveMode /\ ~app.runningUtsc
        => "utsc_start" \in RestartSent(app)

\* C2 (amended): the auto-restart timer ticks every 50000 ms, and a tick sends
\* a capture start request exactly when live mode is on, no capture is marked
\* as running (runningUtsc) and startUtsc finds a modem, an RF port and a
\* CMTS address; any other tick sends nothing.
C2_RestartWhenReady ==
    /\ \A t \in IntervalTimers(app) : t.delay = AutoRestartMs
    /\ IntervalTimers(app) # {} =>
          /\ app.utscLiveMode /\ ~app.runningUtsc /\ StartUtscProceeds(app)
                => RestartSent(app) = {"utsc_start"}
          /\ ~(app.utscLiveMode /\ ~app.runningUtsc /\ StartUtscProceeds(app))
                => RestartSent(app) = {}

\* A capture start sent by the timer is awaiting its response in live mode.
C2_Witness ==
    /\ app.utscLiveMode
    /\ IntervalTimers(app) # {}
    /\ app.starts[<<"resp", "interval">>] > 0

(***************************************************************************)
(* The handlers that can run in state b, by what starts them, each with    *)
(* the state and the output it produces.                                   *)
(***************************************************************************)
StartResponses(b, outcomes) ==
    {DoStartUtscResponse(b, x[1], x[2]) :
        x \in {y \in Callers \X outcomes : b.starts[<<"resp", y[1]>>] > 0}}
DataResponses(b, outcomes) ==
    {DoFetchUtscDataResponse(b, x[1], x[2]) :
        x \in {y \in Callers \X outcomes : b.starts[<<"data", y[1]>>] > 0}}
StopResponses(b, outcomes) ==
    {DoStopUtscResponse(b, o) : o \in {y \in outcomes : b.stops > 0}}
ConfigResponses(b, outcomes) ==
    {DoSeqConfigResponse(b, o) : o \in {y \in outcomes : b.seqs["configresp"] > 0}}
DiscoveryResponses(b, outcomes) ==
    {DoDiscoveryResponse(b, o) : o \in {y \in outcomes : b.discoveries > 0}}
StatsResponses(b, outcomes) ==
    {DoChannelStatsResponse(b, o) : o \in {y \in outcomes : b.statsReqs > 0}}
MeasurementResponses(b, outcomes) ==
    {DoMeasurementResponse(b, o) : o \in {y \in outcomes : b.measurements > 0}}
ListResponses(b, outcomes) ==
    {DoListResponse(b, x[1], x[2]) : x \in b.listReqs \X outcomes}

\* The responses to the HTTP requests in flight
Responses(b, outcomes) ==
    StartResponses(b, outcomes) \cup DataResponses(b, outcomes)
    \cup StopResponses(b, outcomes) \cup ConfigResponses(b, outcomes)
    \cup DiscoveryResponses(b, outcomes) \cup StatsResponses(b, outcomes)
    \cup MeasurementResponses(b, outcomes) \cup ListResponses(b, outcomes)

\* The events of the WebSocket and the reconnect timer
SocketEvents(b) ==
    (IF b.utscWebSocket = "connecting" THEN {DoWsOpen(b), DoWsFail(b)} ELSE {})
    \cup (IF b.utscWebSocket = "open"
          THEN {DoWsDrop(b, lost) : lost \in BOOLEAN}
               \cup {DoOnMessage(b, ty) : ty \in StreamMessageTypes}
          ELSE {})
    \cup (IF b.wsClosing > 0 THEN {DoWsClosingDone(b)} ELSE {})
    \cup {DoReconnectFire(b, x[1], x[2]) : x \in ReconnectTimers(b) \X BOOLEAN}

\* The steps that continue a call after a pause or a chart initialisation
Continuations(b) ==
    {DoStartUtscFetchData(b, c) : c \in {y \in Callers : b.starts[<<"sleep", y>>] > 0}}
    \cup {DoChartInitDone(b, o) : o \in {y \in ChartOutcomes : b.chartInits["create"] > 0}}
    \cup {DoToggleChartInitDone(b, o, FALSE) :
             o \in {y \in ChartOutcomes : b.toggles["chartinit"] > 0}}

\* The steps of a startUtscLive call the user has started
LiveStartSteps(b) ==
    (IF b.seqs["preinit"] > 0 THEN {DoSeqPreinitDone(b)} ELSE {})
    \cup {DoSeqChartInitDone(b, o) : o \in {y \in ChartOutcomes : b.seqs["chartinit"] > 0}}
    \cup {DoSeqSettleDone(b, th) : th \in {y \in BOOLEAN : b.seqs["settle"] > 0}}
    \cup (IF b.seqs["waitws"] > 0 /\ b.utscWebSocket = "open"
          THEN {DoSeqWsReady(b)} ELSE {})
    \cup (IF b.seqs["waitws"] > 0 /\ b.utscWebSocket # "open"
          THEN {DoSeqWsTimeout(b)} ELSE {})

\* The ticks of the auto-restart timer
Restarts(b) == IF IntervalTimers(b) # {} THEN {DoAutoRestartFire(b)} ELSE {}

\* r sends a request of a kind that has failed since the user last acted.
Resends(r) == r.out.sent \cap r.failed # {}

\* C4 (as stated): after a capture start, measurement or search request has
\* failed, no handler sends a request of that kind before the user acts again.
C4_NoResendUntilUserActs ==
    \A r \in Responses(app, HttpOutcomes) \cup SocketEvents(app) \cup Continuations(app)
             \cup LiveStartSteps(app) \cup Restarts(app) :
        ~Resends(r)

\* C4 (amended): after a capture start, measurement or search request has
\* failed, the handler of the failure sends nothing again, and neither does
\* any other response handler, socket event or continuation.  Before the user
\* acts again a request of the failed kind is sent only by the auto-restart
\* timer of live mode, which sends the capture start again at its next tick,
\* or by the remaining steps of a startUtscLive call the user had started.
C4_ResendOnlyByAutoRestart ==
    /\ \A r \in Responses(app, HttpOutcomes) \cup SocketEvents(app)
                \cup Continuations(app) :
          ~Resends(r)
    /\ \A r \in Restarts(app) \cup LiveStartSteps(app) :
          r.out.sent \subseteq {"utsc_start"}

\* A measurement or a search has failed and none is in flight.
C4_Witness ==
    \/ "measurement" \in app.failed /\ app.measurements = 0
    \/ "search" \in app.failed /\ app.listReqs = {}

\* The failures the code reports / only logs
ReportedFailures(b) ==
    StartResponses(b, Failures) \cup StopResponses(b, Failures)
    \cup ConfigResponses(b, Failures) \cup DiscoveryResponses(b, Failures)
    \cup MeasurementResponses(b, Failures) \cup ListResponses(b, Failures)
    \cup DataResponses(b, IF b.utscLiveMode THEN {"fail"} ELSE Failures)
    \cup (IF b.utscWebSocket = "connecting" THEN {DoWsFail(b)} ELSE {})
    \cup (IF b.utscWebSocket = "open" THEN {DoWsDrop(b, TRUE)} ELSE {})
LoggedFailures(b) ==
    StatsResponses(b, Failures)
    \cup DataResponses(b, IF b.utscLiveMode THEN {"throw"} ELSE {})
    \cup (IF b.utscWebSocket = "open" THEN {DoOnMessage(b, "error")} ELSE {})
Notified(r) == r.out.toast \cap {"error", "warning"} # {}

C7_DelayGrows ==
    \A t \in ReconnectTimers(app) : t.after > 0 => t.delay > t.after

\* C7 (amended): every reconnect is scheduled ReconnectDelayMs (2000 ms) after
\* the close, also when the reconnects before it have failed.
C7_DelayConstant ==
    \A t \in ReconnectTimers(app) : t.delay = ReconnectDelayMs

\* A reconnect is scheduled after the socket of a reconnect has failed.
C7_Witness ==
    \E t \in ReconnectTimers(app) : t.after = ReconnectDelayMs /\ app.used.drops > 1

C6_LastResponseWins ==
    app.listReqs = {} => app.modems = ResponseList(app.lastArrived)

\* C6 (amended): the list displayed is always the one of the successful
\* response that arrived last, whatever the order in which the requests were
\* sent; a failed response leaves the list as it was.
C6_LastSuccessfulResponseWins ==
    app.modems = ResponseList(app.lastLoaded)

\* Two requests were sent, the answer to the first arrived last, and its list
\* is displayed.
C6_Witness ==
    /\ app.listsSent = 2
    /\ app.listReqs = {}
    /\ app.lastArrived.id = 1
    /\ app.modems = ResponseList(app.lastArrived)

Automatic(b) ==
    Responses(b, HttpOutcomes) \cup SocketEvents(b) \cup Continuations(b)
    \cup LiveStartSteps(b) \cup Restarts(b)

\* C12: once the user has stopped live monitoring, and until the user starts
\* it again, no UTSC WebSocket is open, no reconnect is scheduled and no
\* handler sends a capture start request, also when the stop came while a
\* start sequence was in progress.
C12_QuietAfterStop ==
    app.userStopped =>
        /\ app.utscWebSocket # "open"
        /\ ReconnectTimers(app) = {}
        /\ \A r \in Automatic(app) : "utsc_start" \notin r.out.sent

\* C13: a reconnect is scheduled only by the close of a connection that
\* failed or was dropped; the close event of a socket the client closed
\* itself (stopUtscWebSocket: on stop, or to replace it) schedules none.
C13_NoReconnectAfterOwnClose ==
    app.wsClosing > 0 => ReconnectTimers(DoWsClosingDone(app)) = ReconnectTimers(app)

\* C14: at any time at most one UTSC WebSocket of the page is connecting or
\* open, and it is the one this.utscWebSocket refers to: startUtscWebSocket
\* closes the existing connection before it opens a new one.
C14_AtMostOneSocket ==
    /\ app.wsLive =< 1
    /\ app.wsLive = 1 <=> app.utscWebSocket \in {"connecting", "open"}

\* A new connection has replaced one that was connecting or open: the old
\* socket is closing while the new one is connecting.
C14_Witness ==
    /\ app.wsReplaced
    /\ app.wsClosing > 0
    /\ app.utscWebSocket = "connecting"
    /\ app.wsLive = 1

\* C15: at any time at most one auto-restart timer is armed, so that the
\* capture is restarted at most once per AutoRestartMs (50 s).
C15_AtMostOneAutoRestart ==
    Cardinality(IntervalTimers(app)) =< 1

\* The user starts live monitoring in state b (startUtscLive, up to its
\* first await).
Restarted(b) == Done(DoStartUtscLive(b))

\* C16: the response to a capture stop request affects only the session that
\* was being stopped: when the user has stopped live monitoring and starts it
\* again before the response to the stop request arrives, the late response
\* neither switches live mode off nor closes the WebSocket of the new session.
C16_LateStopResponseHarmless ==
    app.userStopped /\ app.stops > 0 /\ Restarted(app).utscLiveMode =>
        \A o \in HttpOutcomes :
            LET r == DoStopUtscResponse(Restarted(app), o) IN
            /\ r.utscLiveMode
            /\ r.utscWebSocket = Restarted(app).utscWebSocket

\* The capture start requests that await their response
StartRequestsInFlight(b) ==
    b.starts[<<"resp", "user">>] + b.starts[<<"resp", "interval">>]
    + b.starts[<<"resp", "seq">>] + b.seqs["configresp"]

\* C17: at most one capture start request is in flight at any time: while a
\* capture start request awaits its response, neither a tick of the
\* auto-restart timer nor a step of a start sequence sends another one.
C17_OneStartInFlight ==
    StartRequestsInFlight(app) > 0 =>
        \A r \in Restarts(app) \cup LiveStartSteps(app) :
            "utsc_start" \notin r.out.sent

\* The steps at which a startUtscLive call running in state b fails: the
\* chart cannot be initialised, the modem has no CMTS IP, the start request
\* is rejected or throws, the WebSocket is not open within 5 seconds.
FailedLiveStarts(b) ==
    {DoSeqChartInitDone(b, o) :
        o \in {y \in ChartOutcomes \ {"ok"} : b.seqs["chartinit"] > 0}}
    \cup {DoSeqChartInitDone(b, o) :
        o \in {y \in {"ok"} : b.seqs["chartinit"] > 0 /\ ~HasCmtsIp(b.selectedModem)}}
    \cup (IF b.seqs["preinit"] > 0 /\ b.utscSciChart /\ ~HasCmtsIp(b.selectedModem)
          THEN {DoSeqPreinitDone(b)} ELSE {})
    \cup ConfigResponses(b, Failures)
    \cup (IF b.seqs["waitws"] > 0 /\ b.utscWebSocket # "open"
          THEN {DoSeqWsTimeout(b)} ELSE {})

\* C18: when a start of live monitoring fails at any of its steps, the start
\* sequence ends with live mode off, no WebSocket connecting or open and no
\* auto-restart timer armed.
C18_FailedStartLeavesNothing ==
    \A r \in FailedLiveStarts(app) :
        /\ ~r.utscLiveMode
        /\ r.utscWebSocket \notin {"connecting", "open"}
        /\ IntervalTimers(r) = {}

\* C19: while live mode is on and the UTSC WebSocket is open, the interactive
\* chart is initialised (so that updateUtscSciChart draws the frames that pass
\* the throttle instead of skipping them).
C19_ChartWhileStreaming ==
    app.utscLiveMode /\ app.utscWebSocket = "open" => app.utscSciChart

====
